---- MODULE Spec2Model ----
(***************************************************************************)
(* Model of fraud_detection_app.py: the Luhn validator (luhn_algorithm),   *)
(* the batch rule engine (rule_based_detection), the anomaly scorer        *)
(* (anomaly_detection) and the Flask scoring endpoint (detect_fraud).      *)
(*                                                                         *)
(* Strings are sequences of Unicode code points, so that Python's          *)
(* str.replace, str.isdigit and int() are modelled by what they do on each *)
(* character.  Amounts and timestamps are integers (whole currency units,  *)
(* whole seconds).  Python exceptions are modelled as outcomes: a function *)
(* either returns a value or raises a named exception.                     *)
(***************************************************************************)
EXTENDS Integers, Sequences, FiniteSets

VARIABLES
    pc,        \* which entry point is exercised and how far it has got
    card,      \* validator: the argument of luhn_algorithm
    luhn_out,  \* validator: the outcome of luhn_algorithm(card)
    df,        \* batch: the DataFrame, mutated in place by the pipeline steps
    err,       \* batch: the exception that ended the pipeline, or "none"
    log        \* online: the requests served so far with their responses

vars == <<pc, card, luhn_out, df, err, log>>

----------------------------------------------------------------------------
(* Bounds of the exploration *)

\* longest card-number string enumerated exhaustively for the validator
MaxLen == 3
\* most records in a batch
MaxRows == 2
\* most online requests in one run of the service
MaxRequests == 3

----------------------------------------------------------------------------
(* Outcomes of a Python call *)

Return(v) == [exc |-> "none", val |-> v]

Raise(e) == [exc |-> e, val |-> FALSE]

NoResult == [exc |-> "pending", val |-> FALSE]

----------------------------------------------------------------------------
(* Characters (code points) *)

\* ' ', the character removed by card_number.replace(' ', '')
Space == 32

\* '0'..'9'
AsciiDigits == 48..57

\* The code points of the characters with decimal digit value 0 (Unicode
\* category Nd, Unicode 14): each is followed by the digits 1..9 of its
\* script.  48 is '0', 1632 ARABIC-INDIC DIGIT ZERO, 2406 DEVANAGARI DIGIT
\* ZERO, 65296 FULLWIDTH DIGIT ZERO.  isdigit() is True for these 660
\* characters and int() accepts them.
DecimalDigitZeros ==
    {48, 1632, 1776, 1984, 2406, 2534, 2662, 2790, 2918, 3046, 3174, 3302,
     3430, 3558, 3664, 3792, 3872, 4160, 4240, 6112, 6160, 6470, 6608, 6784,
     6800, 6992, 7088, 7232, 7248, 42528, 43216, 43264, 43472, 43504, 43600,
     44016, 65296, 66720, 68912, 69734, 69872, 69942, 70096, 70384, 70736,
     70864, 71248, 71360, 71472, 71904, 72016, 72784, 73040, 73120, 92768,
     92864, 93008, 120782, 120792, 120802, 120812, 120822, 123200, 123632,
     125264, 130032}

\* The 128 characters that are digits and not decimal digits (superscripts,
\* subscripts, circled and parenthesized digits, ...): isdigit() is True for
\* them and int() raises ValueError.  178 is SUPERSCRIPT TWO.
OtherDigits ==
    (178..179) \cup {185} \cup (4969..4977) \cup {6618} \cup {8304}
    \cup (8308..8313) \cup (8320..8329) \cup (9312..9320) \cup (9332..9340)
    \cup (9352..9360) \cup {9450} \cup (9461..9469) \cup {9471}
    \cup (10102..10110) \cup (10112..10120) \cup (10122..10130)
    \cup (68160..68163) \cup (69216..69224) \cup (69714..69722)
    \cup (127232..127242)

\* whether int(c) succeeds for a character c: c is a decimal digit
IntAccepts(c) ==
    c \in AsciiDigits \/ \E z \in DecimalDigitZeros : c \in z..(z + 9)

\* str.isdigit() of one character
CharIsDigit(c) == IntAccepts(c) \/ c \in OtherDigits

\* int(c) for a character int() accepts: its decimal digit value
IntOf(c) ==
    IF c \in AsciiDigits THEN c - 48
    ELSE c - (CHOOSE z \in DecimalDigitZeros : c \in z..(z + 9))

\* the string whose characters are the ASCII digits ds
Ascii(ds) == [i \in DOMAIN ds |-> ds[i] + 48]

----------------------------------------------------------------------------
(* luhn_algorithm *)

RECURSIVE StrReplaceSpace(_)
\* card_number.replace(' ', '')
StrReplaceSpace(s) ==
    IF s = <<>> THEN <<>>
    ELSE IF Head(s) = Space THEN StrReplaceSpace(Tail(s))
    ELSE <<Head(s)>> \o StrReplaceSpace(Tail(s))

\* str.isdigit(): at least one character, and every character a digit
StrIsDigit(s) == Len(s) > 0 /\ \A i \in DOMAIN s : CharIsDigit(s[i])

\* card_number[::-1]
StrReverse(s) == [i \in DOMAIN s |-> s[Len(s) + 1 - i]]

\* a bug: the digits at even positions are the ones doubled
LuhnDigitEvenDoubled(idx, n) ==
    IF idx % 2 = 0
    THEN (IF n * 2 > 9 THEN n * 2 - 9 ELSE n * 2)
    ELSE n

\* the loop body: what the digit n at position idx adds to total
LuhnDigit(idx, n) ==
    IF idx % 2 = 1
    THEN (IF n * 2 > 9 THEN n * 2 - 9 ELSE n * 2)
    ELSE n

RECURSIVE LuhnLoop(_, _, _)
\* for idx, digit in enumerate(reverse_digits): total += ...
\* (idx is 0-based, TLA+ sequences are 1-based)
LuhnLoop(reverse_digits, idx, total) ==
    IF idx >= Len(reverse_digits) THEN total
    ELSE LuhnLoop(reverse_digits, idx + 1,
                  total + LuhnDigit(idx, IntOf(reverse_digits[idx + 1])))

luhn_algorithm(card_number) ==
    LET stripped == StrReplaceSpace(card_number) IN
    IF ~StrIsDigit(stripped) THEN Return(FALSE)
    ELSE IF \E i \in DOMAIN stripped : ~IntAccepts(stripped[i])
         THEN Raise("ValueError")
    ELSE Return(LuhnLoop(StrReverse(stripped), 0, 0) % 10 = 0)

----------------------------------------------------------------------------
(* Inputs *)

\* "4539148803436467"
ValidCard == Ascii(<<4, 5, 3, 9, 1, 4, 8, 8, 0, 3, 4, 3, 6, 4, 6, 7>>)

\* "4539148803436468": the last digit incremented
InvalidCard == [ValidCard EXCEPT ![16] = 56]

\* "4539x48803436467"
LetterCard == [ValidCard EXCEPT ![5] = 120]

\* "4539 1488 0343 6467"
SpacedCard ==
    SubSeq(ValidCard, 1, 4) \o <<Space>> \o SubSeq(ValidCard, 5, 8) \o <<Space>>
    \o SubSeq(ValidCard, 9, 12) \o <<Space>> \o SubSeq(ValidCard, 13, 16)

\* "45391488034364²7": a superscript two among the digits
SuperscriptCard == [ValidCard EXCEPT ![15] = 178]

\* the characters of the exhaustively enumerated strings:
\* '0'..'9', ' ', 'x', superscript two, Arabic-Indic zero
Alphabet == AsciiDigits \cup {Space, 120, 178, 1632}

ValidatorInputs ==
    UNION {[1..n -> Alphabet] : n \in 0..MaxLen}
    \cup {ValidCard, InvalidCard, LetterCard, SpacedCard, SuperscriptCard}

----------------------------------------------------------------------------
(* DataFrame: len rows, data maps each column name to its series *)

HasColumn(d, c) == c \in DOMAIN d.data

\* df[c] = series
SetColumn(d, c, series) ==
    [d EXCEPT !.data = [k \in DOMAIN d.data \cup {c} |->
                            IF k = c THEN series ELSE d.data[k]]]

Rows(d) == 1..d.len

\* the rows idx (a sequence of row numbers) of the DataFrame, in that order
SelectRows(d, idx) ==
    [len |-> Len(idx),
     data |-> [c \in DOMAIN d.data |->
                 [k \in 1..Len(idx) |-> d.data[c][idx[k]]]]]

RECURSIVE Ascending(_)
\* the numbers of a set in increasing order
Ascending(S) ==
    IF S = {} THEN <<>>
    ELSE LET m == CHOOSE x \in S : \A y \in S : x <= y
         IN  <<m>> \o Ascending(S \ {m})

\* A value of the CardNumber column: a str, or the int with these decimal
\* digits when the column holds numbers
StrCell(s) == [kind |-> "str", s |-> s]

IntCell(s) == [kind |-> "int", s |-> s]

\* A value of the Amount column before preprocessing: a number, or missing
NumberCell(n) == [null |-> FALSE, num |-> n]

NullCell == [null |-> TRUE, num |-> 0]

----------------------------------------------------------------------------
(* preprocess_data *)

\* whether a value is missing: of the modelled values, NullCell in Amount
IsNull(c, v) == c = "Amount" /\ v.null

\* df.drop_duplicates(): of equal rows the first stays; an empty DataFrame
\* (no rows, or no columns) is returned as it is
DropDuplicates(d) ==
    IF d.len = 0 \/ DOMAIN d.data = {} THEN d
    ELSE SelectRows(d, Ascending(
            {i \in Rows(d) :
                \A j \in 1..(i - 1) :
                    \E c \in DOMAIN d.data : d.data[c][i] # d.data[c][j]}))

\* df.dropna(): the rows with a missing value go
DropNa(d) ==
    SelectRows(d, Ascending(
        {i \in Rows(d) : \A c \in DOMAIN d.data : ~IsNull(c, d.data[c][i])}))

\* df['Amount'].astype(float): the number itself
AmountAsFloat(d) ==
    IF HasColumn(d, "Amount")
    THEN SetColumn(d, "Amount", [i \in Rows(d) |-> d.data["Amount"][i].num])
    ELSE d

\* pd.to_datetime of a text "2024-01-01 HH:MM:SS": the instant, here in
\* seconds since 2024-01-01 00:00:00
ToDatetime(t) ==
    ((t[12] - 48) * 10 + (t[13] - 48)) * 3600
    + ((t[15] - 48) * 10 + (t[16] - 48)) * 60
    + (t[18] - 48) * 10 + (t[19] - 48)

\* pd.to_datetime(df['Timestamp'])
TimestampToDatetime(d) ==
    IF HasColumn(d, "Timestamp")
    THEN SetColumn(d, "Timestamp",
                   [i \in Rows(d) |-> ToDatetime(d.data["Timestamp"][i])])
    ELSE d

preprocess_data(d) == TimestampToDatetime(AmountAsFloat(DropNa(DropDuplicates(d))))

----------------------------------------------------------------------------
(* rule_based_detection *)

\* threshold for high transactions
HighAmountThreshold == 1000

\* transactions less than this many seconds apart are suspicious
SuspiciousGapSeconds == 60

NaN == [nan |-> TRUE, sec |-> 0]

Seconds(s) == [nan |-> FALSE, sec |-> s]

\* luhn_algorithm called on a value of the column: an int has no replace(),
\* so the first statement raises AttributeError
luhn_algorithm_call(v) ==
    IF v.kind = "str" THEN luhn_algorithm(v.s) ELSE Raise("AttributeError")

\* df['CardNumber'].apply(luhn_algorithm): the outcome for each record
ApplyLuhn(d) ==
    [i \in Rows(d) |-> luhn_algorithm_call(d.data["CardNumber"][i])]

\* a bug: the threshold itself counts as a high amount
HighAmountInclusive(amount) == amount >= HighAmountThreshold

\* df['Amount'] > 1000, for one record
HighAmount(amount) == amount > HighAmountThreshold

\* df['Timestamp'].diff().dt.total_seconds(): NaN for the first record,
\* else the seconds since the record before it
TimeGap(d) ==
    [i \in Rows(d) |->
        IF i = 1 THEN NaN
        ELSE Seconds(d.data["Timestamp"][i] - d.data["Timestamp"][i - 1])]

\* a bug: a gap of exactly 60 seconds is flagged
SuspiciousTimeInclusive(gap) == ~gap.nan /\ gap.sec <= SuspiciousGapSeconds

\* df['TimeGap'] < 60, for one record: a comparison with NaN is False
SuspiciousTime(gap) == ~gap.nan /\ gap.sec < SuspiciousGapSeconds

\* a bug: validity is a signal instead of a gate
FraudulentAnyRule(luhn_valid, high_amount, suspicious_time) ==
    luhn_valid \/ (high_amount \/ suspicious_time)

\* df['LuhnValid'] & (df['HighAmount'] | df['SuspiciousTime']), for one record
Fraudulent(luhn_valid, high_amount, suspicious_time) ==
    luhn_valid /\ (high_amount \/ suspicious_time)

\* Rule 1
RuleLuhn(d) ==
    IF HasColumn(d, "CardNumber")
    THEN SetColumn(d, "LuhnValid", [i \in Rows(d) |-> ApplyLuhn(d)[i].val])
    ELSE d

\* Rule 2
RuleAmount(d) ==
    IF HasColumn(d, "Amount")
    THEN SetColumn(d, "HighAmount",
                   [i \in Rows(d) |-> HighAmount(d.data["Amount"][i])])
    ELSE d

\* Rule 3
RuleTime(d) ==
    IF HasColumn(d, "Timestamp")
    THEN LET g == SetColumn(d, "TimeGap", TimeGap(d)) IN
         SetColumn(g, "SuspiciousTime",
                   [i \in Rows(g) |-> SuspiciousTime(g.data["TimeGap"][i])])
    ELSE d

\* the verdict; reading a column that is not there raises KeyError
RuleVerdict(d) ==
    IF ~HasColumn(d, "LuhnValid") \/ ~HasColumn(d, "HighAmount")
       \/ ~HasColumn(d, "SuspiciousTime")
    THEN [df |-> d, exc |-> "KeyError"]
    ELSE [df |-> SetColumn(d, "Fraudulent",
                    [i \in Rows(d) |-> Fraudulent(d.data["LuhnValid"][i],
                                                  d.data["HighAmount"][i],
                                                  d.data["SuspiciousTime"][i])]),
          exc |-> "none"]

\* The DataFrame is mutated in place: the columns added before an exception
\* stay.  An exception inside apply() (that of the first record that raises)
\* leaves it as it was.
rule_based_detection(d) ==
    IF HasColumn(d, "CardNumber")
       /\ \E i \in Rows(d) : ApplyLuhn(d)[i].exc # "none"
    THEN LET first == CHOOSE i \in Rows(d) :
                        /\ ApplyLuhn(d)[i].exc # "none"
                        /\ \A j \in 1..(i - 1) : ApplyLuhn(d)[j].exc = "none"
         IN  [df |-> d, exc |-> ApplyLuhn(d)[first].exc]
    ELSE RuleVerdict(RuleTime(RuleAmount(RuleLuhn(d))))

----------------------------------------------------------------------------
(* anomaly_detection *)

\* df[['Amount']] if 'Amount' in df.columns else df
Features(d) == IF HasColumn(d, "Amount") THEN {"Amount"} ELSE DOMAIN d.data

\* What model.predict(features) can return after model.fit(features): 1
\* (normal) or -1 (anomaly) for each record.  The forest itself is not
\* modelled; what holds of every fitted IsolationForest is kept: records
\* with equal features get equal labels, and the record with the highest
\* score is never below the contamination percentile, so at least one
\* record is normal.
Predictions(d) ==
    {p \in [Rows(d) -> {-1, 1}] :
        /\ \E i \in Rows(d) : p[i] = 1
        /\ \A i, j \in Rows(d) :
              (\A c \in Features(d) : d.data[c][i] = d.data[c][j])
                  => p[i] = p[j]}

\* a bug: the anomaly flag is folded into the verdict
anomaly_detection_folded(d, labels) ==
    LET a == [i \in Rows(d) |-> labels[i] = -1] IN
    SetColumn(SetColumn(d, "Anomaly", a), "Fraudulent",
              [i \in Rows(d) |-> d.data["Fraudulent"][i] \/ a[i]])

\* df['Anomaly'] = model.predict(features), then -1 -> True, else False
anomaly_detection(d, labels) ==
    SetColumn(d, "Anomaly", [i \in Rows(d) |-> labels[i] = -1])

----------------------------------------------------------------------------
(* Batch inputs: DataFrames as loaded *)

InputColumns == {"CardNumber", "Amount", "Timestamp"}

\* three strings, and the number 4539148803436467
BatchCards ==
    {StrCell(ValidCard), StrCell(LetterCard), StrCell(SuperscriptCard),
     IntCell(ValidCard)}

BatchAmounts == {NumberCell(1000), NumberCell(1500), NullCell}

\* "2024-01-01 "
DayText == <<50, 48, 50, 52, 45, 48, 49, 45, 48, 49, 32>>

\* "2024-01-01 00:00:00", "2024-01-01 00:00:30", "2024-01-01 00:01:30"
BatchTimestamps ==
    {DayText \o <<48, 48, 58, 48, 48, 58, 48, 48>>,
     DayText \o <<48, 48, 58, 48, 48, 58, 51, 48>>,
     DayText \o <<48, 48, 58, 48, 49, 58, 51, 48>>}

MakeDF(n, cols, cards, amounts, stamps) ==
    [len |-> n,
     data |-> [c \in cols |->
                 IF c = "CardNumber" THEN cards
                 ELSE IF c = "Amount" THEN amounts
                 ELSE stamps]]

\* the series a column can hold: n values when the DataFrame has the column
ColumnInputs(n, cols, c, values) ==
    IF c \in cols THEN [1..n -> values] ELSE {<<>>}

NoDF == [len |-> 0, data |-> [c \in {} |-> <<>>]]

----------------------------------------------------------------------------
(* detect_fraud *)

\* A JSON value under "Amount": a number, a string, or None when the key is
\* missing (data.get returns None)
JsonNumber(n) == [kind |-> "number", num |-> n, str |-> <<>>]

JsonString(s) == [kind |-> "string", num |-> 0, str |-> s]

JsonNone == [kind |-> "None", num |-> 0, str |-> <<>>]

RECURSIVE DecimalValue(_)
\* the number a string of ASCII digits denotes
DecimalValue(s) ==
    IF s = <<>> THEN 0
    ELSE DecimalValue(SubSeq(s, 1, Len(s) - 1)) * 10 + (s[Len(s)] - 48)

\* float(x): a number is itself; None raises TypeError; a string is parsed,
\* and one that is no number raises ValueError.  Of the strings over ASCII
\* digits and letters a, b, c, the non-empty all-digit ones are the numbers.
PyFloat(x) ==
    IF x.kind = "number" THEN [exc |-> "none", val |-> x.num]
    ELSE IF x.kind = "None" THEN [exc |-> "TypeError", val |-> 0]
    ELSE IF Len(x.str) > 0 /\ \A i \in DOMAIN x.str : x.str[i] \in AsciiDigits
         THEN [exc |-> "none", val |-> DecimalValue(x.str)]
    ELSE [exc |-> "ValueError", val |-> 0]

\* amount > 1000
high_amount(amount) == amount > HighAmountThreshold

\* The handler: float(Amount) is evaluated first, then luhn_algorithm; neither
\* exception is caught.
detect_fraud(data) ==
    LET amount == PyFloat(data.Amount)
        luhn_valid == luhn_algorithm(data.CardNumber)
    IN  IF amount.exc # "none" THEN [exc |-> amount.exc]
        ELSE IF luhn_valid.exc # "none" THEN [exc |-> luhn_valid.exc]
        ELSE [exc |-> "none",
              body |-> [CardNumber |-> data.CardNumber,
                        Amount |-> amount.val,
                        LuhnValid |-> luhn_valid.val,
                        HighAmount |-> high_amount(amount.val),
                        Fraudulent |-> luhn_valid.val
                                       /\ high_amount(amount.val)]]

\* The route: the handler's return value is the body of a 200 response; an
\* exception the handler lets escape is answered by Flask with 500 Internal
\* Server Error, and the service goes on.
Route(data) ==
    LET r == detect_fraud(data) IN
    IF r.exc = "none" THEN [status |-> 200, body |-> r.body]
    ELSE [status |-> 500, body |-> [error |-> "Internal Server Error"]]

\* "abc"
AbcString == <<97, 98, 99>>

OnlineCards == {ValidCard, LetterCard, SuperscriptCard}

OnlineAmounts ==
    {JsonNumber(500), JsonNumber(1000), JsonNumber(1500),
     JsonString(AbcString), JsonString(Ascii(<<1, 5, 0, 0>>)), JsonNone}

Requests == [CardNumber : OnlineCards, Amount : OnlineAmounts]

----------------------------------------------------------------------------
(* The state machine *)

InitValidator ==
    /\ pc = "validator_call"
    /\ card \in ValidatorInputs
    /\ luhn_out = NoResult
    /\ df = NoDF
    /\ err = "none"
    /\ log = <<>>

InitBatch ==
    /\ pc = "batch_loaded"
    /\ card = <<>>
    /\ luhn_out = NoResult
    /\ \E n \in 0..MaxRows, cols \in SUBSET InputColumns :
          \E cards \in ColumnInputs(n, cols, "CardNumber", BatchCards),
             amounts \in ColumnInputs(n, cols, "Amount", BatchAmounts),
             stamps \in ColumnInputs(n, cols, "Timestamp", BatchTimestamps) :
              df = MakeDF(n, cols, cards, amounts, stamps)
    /\ err = "none"
    /\ log = <<>>

InitOnline ==
    /\ pc = "serving"
    /\ card = <<>>
    /\ luhn_out = NoResult
    /\ df = NoDF
    /\ err = "none"
    /\ log = <<>>

\* One of the program's entry points is exercised: the validator on a card
\* number, the batch steps on a DataFrame, or the service.
Init == InitValidator \/ InitBatch \/ InitOnline

\* luhn_algorithm(card)
Validate ==
    /\ pc = "validator_call"
    /\ luhn_out' = luhn_algorithm(card)
    /\ pc' = "validator_done"
    /\ UNCHANGED <<card, df, err, log>>

\* df = preprocess_data(df)
PreprocessData ==
    /\ pc = "batch_loaded"
    /\ df' = preprocess_data(df)
    /\ pc' = "batch_preprocessed"
    /\ UNCHANGED <<card, luhn_out, err, log>>

\* rule_based_detection(df), on the preprocessed DataFrame
RuleBasedDetection ==
    /\ pc = "batch_preprocessed"
    /\ LET r == rule_based_detection(df) IN
         /\ df' = r.df
         /\ err' = r.exc
         /\ pc' = IF r.exc = "none" THEN "batch_ruled" ELSE "rules_failed"
    /\ UNCHANGED <<card, luhn_out, log>>

\* anomaly_detection(df), on the DataFrame rule_based_detection returned;
\* model.fit raises ValueError on a DataFrame with no records
AnomalyDetection ==
    /\ pc = "batch_ruled"
    /\ IF df.len = 0
       THEN /\ err' = "ValueError"
            /\ pc' = "scoring_failed"
            /\ UNCHANGED df
       ELSE /\ \E labels \in Predictions(df) :
                   df' = anomaly_detection(df, labels)
            /\ pc' = "batch_scored"
            /\ UNCHANGED err
    /\ UNCHANGED <<card, luhn_out, log>>

\* POST /detect with body data
DetectFraud(data) ==
    /\ pc = "serving"
    /\ Len(log) < MaxRequests
    /\ log' = Append(log, [req |-> data, resp |-> Route(data)])
    /\ UNCHANGED <<pc, card, luhn_out, df, err>>

Next ==
    \/ Validate
    \/ PreprocessData
    \/ RuleBasedDetection
    \/ AnomalyDetection
    \/ \E data \in Requests : DetectFraud(data)

Spec == Init /\ [][Next]_vars

----------------------------------------------------------------------------
(* The claims' own vocabulary, stated from the specification and not from  *)
(* the definitions above                                                   *)

\* the string with its spaces removed
ClaimStripped(s) == SelectSeq(s, LAMBDA c : c # 32)

\* every character is one of '0'..'9'
ClaimAllDigits(s) == \A i \in DOMAIN s : s[i] \in 48..57

RECURSIVE ClaimLuhnTotal(_, _)
\* The Luhn total of a string of '0'..'9', from position k (0-based) of the
\* reversed string on: a digit at an odd position is doubled, 9 is taken
\* from a doubled value above 9, and all are summed.
ClaimLuhnTotal(s, k) ==
    IF k >= Len(s) THEN 0
    ELSE LET d == s[Len(s) - k] - 48
             doubled == IF 2 * d > 9 THEN 2 * d - 9 ELSE 2 * d
         IN  (IF k % 2 = 1 THEN doubled ELSE d) + ClaimLuhnTotal(s, k + 1)

\* is_valid_card as the specification words it
ClaimIsValidCard(s) ==
    /\ ClaimAllDigits(ClaimStripped(s))
    /\ ClaimLuhnTotal(ClaimStripped(s), 0) % 10 = 0

ResponseFields == {"CardNumber", "Amount", "LuhnValid", "HighAmount", "Fraudulent"}

\* the rule engine has run on the batch
RulesRan == pc \in {"batch_ruled", "rules_failed", "batch_scored", "scoring_failed"}

\* the batch's timestamps are in chronological order
Chronological ==
    \A i, j \in Rows(df) : i < j => df.data["Timestamp"][i] <= df.data["Timestamp"][j]

----------------------------------------------------------------------------
(* C1 *)

\* C1 as claimed: for every card number that consists only of the digits 0-9
\* once its spaces are removed, luhn_algorithm returns true exactly when the
\* Luhn total is divisible by 10.  The number that is empty once its spaces
\* are removed refutes it: its total is 0 and luhn_algorithm returns false.
C1_Original ==
    (pc = "validator_done" /\ ClaimAllDigits(ClaimStripped(card)))
        => luhn_out = Return(ClaimLuhnTotal(ClaimStripped(card), 0) % 10 = 0)

\* C1 as amended: for every card number that, once its spaces are removed, is
\* not empty and consists only of the digits 0-9, luhn_algorithm returns true
\* exactly when the Luhn total is divisible by 10 and false otherwise; for a
\* card number that is empty once its spaces are removed it returns false.
C1_LuhnChecksum ==
    pc = "validator_done" =>
        /\ (Len(ClaimStripped(card)) > 0 /\ ClaimAllDigits(ClaimStripped(card)))
              => luhn_out = Return(ClaimLuhnTotal(ClaimStripped(card), 0) % 10 = 0)
        /\ ClaimStripped(card) = <<>> => luhn_out = Return(FALSE)

\* "4539 1488 0343 6467" has been validated and found valid
C1_Witness ==
    /\ pc = "validator_done"
    /\ card = SpacedCard
    /\ luhn_out = Return(TRUE)

----------------------------------------------------------------------------
(* C2 *)

\* C2: whenever a character other than 0-9 remains once the spaces are
\* removed, luhn_algorithm returns false and raises nothing.
C2_NonDigitIsFalse ==
    (pc = "validator_done" /\ ~ClaimAllDigits(ClaimStripped(card)))
        => luhn_out = Return(FALSE)

----------------------------------------------------------------------------
(* C3 *)

\* C3: in every batch the rule engine has given a verdict, each record's
\* Fraudulent is LuhnValid AND (HighAmount OR SuspiciousTime), so a record
\* that fails the checksum is never fraudulent.
C3_BatchVerdict ==
    HasColumn(df, "Fraudulent") =>
        \A i \in Rows(df) :
            /\ df.data["Fraudulent"][i] =
                  (df.data["LuhnValid"][i]
                   /\ (df.data["HighAmount"][i] \/ df.data["SuspiciousTime"][i]))
            /\ ~df.data["LuhnValid"][i] => ~df.data["Fraudulent"][i]

\* a record that fails the checksum, with a high amount and a short gap, has
\* been given the verdict not fraudulent
C3_Witness ==
    /\ pc = "batch_ruled"
    /\ \E i \in Rows(df) :
          /\ ~df.data["LuhnValid"][i]
          /\ df.data["HighAmount"][i]
          /\ df.data["SuspiciousTime"][i]
          /\ ~df.data["Fraudulent"][i]

----------------------------------------------------------------------------
(* C4 *)

\* C4: every request with a string CardNumber and a numeric Amount is
\* answered with exactly the five fields, LuhnValid = is_valid_card(CardNumber),
\* HighAmount = (Amount > 1000), Fraudulent = LuhnValid AND HighAmount.
C4_OnlineResponse ==
    \A k \in DOMAIN log :
        log[k].req.Amount.kind = "number" =>
            /\ log[k].resp.status = 200
            /\ DOMAIN log[k].resp.body = ResponseFields
            /\ log[k].resp.body.CardNumber = log[k].req.CardNumber
            /\ log[k].resp.body.Amount = log[k].req.Amount.num
            /\ log[k].resp.body.LuhnValid = ClaimIsValidCard(log[k].req.CardNumber)
            /\ log[k].resp.body.HighAmount = (log[k].req.Amount.num > 1000)
            /\ log[k].resp.body.Fraudulent =
                  (log[k].resp.body.LuhnValid /\ log[k].resp.body.HighAmount)

----------------------------------------------------------------------------
(* C5 *)

\* the Amount is missing or is the string "abc"
ClaimMalformedAmount(a) ==
    a.kind = "None" \/ (a.kind = "string" /\ a.str = <<97, 98, 99>>)

\* C5: a request whose Amount is missing or not a number is answered with a
\* client error (4xx), not with a server fault.
C5_MalformedIsClientError ==
    \A k \in DOMAIN log :
        ClaimMalformedAmount(log[k].req.Amount)
            => log[k].resp.status \in 400..499

----------------------------------------------------------------------------
(* C6 *)

\* C6: in a batch whose timestamps are in chronological order, a record's
\* SuspiciousTime is true exactly when it has a record before it and the gap
\* to that record is under 60 seconds; the first record's is false.
C6_SuspiciousTime ==
    (HasColumn(df, "SuspiciousTime") /\ Chronological) =>
        \A i \in Rows(df) :
            df.data["SuspiciousTime"][i] =
                (i > 1 /\ df.data["Timestamp"][i] - df.data["Timestamp"][i - 1] < 60)

\* two records 30 seconds apart: the second is flagged, the first is not
C6_Witness ==
    /\ RulesRan
    /\ df.len = 2
    /\ HasColumn(df, "SuspiciousTime")
    /\ df.data["Timestamp"] = <<0, 30>>
    /\ df.data["SuspiciousTime"] = <<FALSE, TRUE>>

----------------------------------------------------------------------------
(* C7 *)

\* C7: on a batch of records with CardNumber (digit strings) and Amount and
\* no Timestamp the rule engine completes, adds LuhnValid, HighAmount and Fraudulent, and adds neither
\* TimeGap nor SuspiciousTime.
C7_NoTimestampCompletes ==
    (/\ RulesRan
     /\ df.len > 0
     /\ HasColumn(df, "CardNumber")
     /\ HasColumn(df, "Amount")
     /\ ~HasColumn(df, "Timestamp")
     /\ \A i \in Rows(df) :
           /\ df.data["CardNumber"][i].kind = "str"
           /\ ClaimAllDigits(ClaimStripped(df.data["CardNumber"][i].s)))
        => /\ pc # "rules_failed"
           /\ HasColumn(df, "LuhnValid")
           /\ HasColumn(df, "HighAmount")
           /\ HasColumn(df, "Fraudulent")
           /\ ~HasColumn(df, "TimeGap")
           /\ ~HasColumn(df, "SuspiciousTime")

----------------------------------------------------------------------------
(* C8 *)

\* C8: HighAmount is true exactly when the amount is above 1000, in every
\* batch the amount rule has run on and in every online response.
C8_HighAmountStrict ==
    /\ HasColumn(df, "HighAmount") =>
          \A i \in Rows(df) :
              df.data["HighAmount"][i] = (df.data["Amount"][i] > 1000)
    /\ \A k \in DOMAIN log :
          log[k].resp.status = 200 =>
              log[k].resp.body.HighAmount = (log[k].resp.body.Amount > 1000)

\* an online request with an amount of exactly 1000 answered not high, and
\* one with 1500 answered high
C8_Witness ==
    \E i, j \in DOMAIN log :
        /\ log[i].req.Amount = JsonNumber(1000)
        /\ log[i].resp.status = 200
        /\ ~log[i].resp.body.HighAmount
        /\ log[j].req.Amount = JsonNumber(1500)
        /\ log[j].resp.status = 200
        /\ log[j].resp.body.HighAmount

----------------------------------------------------------------------------
(* C9 *)

\* C9 (the same request gets the same response at every position of every
\* sequence of requests) relates the responses of different runs of the
\* service.  detect_fraud assigns only local names (data, card_number, amount,
\* luhn_valid, high_amount, is_fraudulent, response) and the module keeps no
\* mutable global, so the handler is an operator of the request alone: Route
\* reads no variable, and a formula that compares two of its responses to
\* one request holds of any such operator.  No formula is stated for it.

----------------------------------------------------------------------------
(* C10 *)

\* C10: the anomaly scorer adds the Anomaly column and nothing else: the
\* records, their order and every column the batch had, Fraudulent among
\* them, are as they were; a scorer that fails leaves the batch as it was.
C10_AnomalyFrame ==
    [][pc = "batch_ruled" =>
          /\ df'.len = df.len
          /\ \A c \in DOMAIN df.data :
                c \in DOMAIN df'.data /\ df'.data[c] = df.data[c]
          /\ DOMAIN df'.data \subseteq DOMAIN df.data \cup {"Anomaly"}
          /\ pc' = "batch_scored" => HasColumn(df', "Anomaly")]_vars

\* a scored record that is an anomaly and is not fraudulent
C10_Witness ==
    /\ pc = "batch_scored"
    /\ \E i \in Rows(df) :
          /\ df.data["Anomaly"][i]
          /\ ~df.data["Fraudulent"][i]

====
